---- MODULE Spec2Model ----
(***************************************************************************)
(* Model of mpl_sankey.sankey (src/mpl_sankey/__init__.py): one render     *)
(* call as a state machine.  The input table, the per-phase aggregates,    *)
(* the two cursor series and the drawing surface are the state.            *)
(*                                                                         *)
(* Real numbers are modelled exactly, as normalised fractions <<n, d>>;    *)
(* the code's float64 values agree with them up to rounding.               *)
(* Category labels are positive integers, ordered as the labels sort.      *)
(* Colours (lines 118 to 121) and the node_sizes annotation (lines 52 to   *)
(* 59, 176 to 181) change no position and are left out: a text is its      *)
(* label or its column.                                                    *)
(***************************************************************************)
EXTENDS Integers, Sequences, FiniteSets, TLC

\* ---------------------------------------------------------------- bounds
\* the longest table, and the largest constant weights are rescaled by
MaxRows == 2
MaxScale == 3

\* the weights, labels and numbers of columns the tables are built from
Weights == 0..2
Labels == 1..2
ColumnCounts == 0..4

\* ------------------------------------------------------- exact arithmetic
Abs(x) == IF x < 0 THEN -x ELSE x

RECURSIVE GCD(_, _)
GCD(a, b) == IF b = 0 THEN a ELSE GCD(b, a % b)

\* n/d in lowest terms, d > 0; a zero denominator is float inf (or nan).
Rat(n, d) ==
    IF d = 0 THEN <<(IF n = 0 THEN 0 ELSE 1), 0>>
    ELSE LET g == GCD(Abs(n), Abs(d))
             s == IF d < 0 THEN -1 ELSE 1
         IN  <<(s * n) \div g, (s * d) \div g>>

Zero == Rat(0, 1)
One == Rat(1, 1)
RAdd(x, y) == Rat(x[1] * y[2] + y[1] * x[2], x[2] * y[2])
RSub(x, y) == Rat(x[1] * y[2] - y[1] * x[2], x[2] * y[2])
RMul(x, y) == Rat(x[1] * y[1], x[2] * y[2])
RDiv(x, y) == Rat(x[1] * y[2], x[2] * y[1])
RLe(x, y) == x[1] * y[2] <= y[1] * x[2]
RLt(x, y) == x[1] * y[2] < y[1] * x[2]
FromInt(i) == Rat(i, 1)

\* -------------------------------------------------------------- constants
GAPS == Rat(1, 10)
LEFT == Rat(1, 10)
RIGHT == Rat(9, 10)

\* The label a row gets when its category is not among the Categorical's
\* categories (pandas NaN).
NaN == 0

\* ------------------------------------------------------------- the table
\* A table is [ncols, rows]; a row is a tuple of ncols cells, cell 0 the
\* weight.  Columns are numbered from 0 as in the source.
Cell(row, c) == row[c + 1]

RowsOf(n) ==
    {r \in [1..n -> Weights \cup Labels] :
        \A c \in 1..n : IF c = 1 THEN r[c] \in Weights ELSE r[c] \in Labels}

\* the tables of n columns and len rows
TablesOf(n, len) == {[ncols |-> n, rows |-> rs] : rs \in [1..len -> RowsOf(n)]}

\* The example of the documentation: A = 1, B = 2, X = 3, Y = 4.
ExampleData ==
    [ncols |-> 3, rows |-> << <<10, 1, 3>>, <<5, 2, 3>>, <<5, 2, 4>> >>]

\* A table of two phases: three categories in the first two category
\* columns, in an order that is not the sorted one, and one in the last.
WideData ==
    [ncols |-> 4, rows |-> << <<2, 3, 1, 2>>, <<1, 1, 3, 2>>,
                              <<3, 2, 2, 2>>, <<1, 3, 3, 2>> >>]

\* data.iloc[:, 0].sum()
RECURSIVE SumWeights(_, _)
SumWeights(rows, n) ==
    IF n = 0 THEN 0 ELSE SumWeights(rows, n - 1) + Cell(rows[n], 0)

\* the scale taken from the number of rows, not from their total weight
Factor_PerRow(d) == RDiv(RSub(One, GAPS), FromInt(Len(d.rows)))

\* factor = (1 - GAPS) / data.iloc[:, 0].sum()
Factor(d) == RDiv(RSub(One, GAPS), FromInt(SumWeights(d.rows, Len(d.rows))))

\* phases = data.shape[1] - 2
Phases(d) == d.ncols - 2

\* ---------------------------------------------------------------- Series
\* A pandas Series: the ordered index and the value of each index entry.
Range(s) == {s[i] : i \in DOMAIN s}

Min(S) == CHOOSE x \in S : \A y \in S : x <= y

RECURSIVE SortedSeq(_)
SortedSeq(S) ==
    IF S = {} THEN <<>> ELSE <<Min(S)>> \o SortedSeq(S \ {Min(S)})

RECURSIVE GroupWeight(_, _, _, _)
GroupWeight(rows, n, c, lab) ==
    IF n = 0 THEN 0
    ELSE GroupWeight(rows, n - 1, c, lab)
         + (IF Cell(rows[n], c) = lab THEN Cell(rows[n], 0) ELSE 0)

\* the distinct labels of column c in the order of their first row
RECURSIVE FirstSeen(_, _, _)
FirstSeen(rows, n, c) ==
    IF n = 0 THEN <<>>
    ELSE LET prev == FirstSeen(rows, n - 1, c)
         IN  IF Cell(rows[n], c) \in Range(prev) THEN prev
             ELSE Append(prev, Cell(rows[n], c))

\* a group-by that keeps the keys in the order of their first row
GroupSum_Unsorted(d, c) ==
    LET keys == {Cell(d.rows[i], c) : i \in 1..Len(d.rows)}
    IN  [index |-> FirstSeen(d.rows, Len(d.rows), c),
         val |-> [lab \in keys |-> GroupWeight(d.rows, Len(d.rows), c, lab)]]

\* data.groupby(column c)[var_weight].sum(): the keys come out sorted.
GroupSum(d, c) ==
    LET keys == {Cell(d.rows[i], c) : i \in 1..Len(d.rows)}
    IN  [index |-> SortedSeq(keys),
         val |-> [lab \in keys |-> GroupWeight(d.rows, Len(d.rows), c, lab)]]

RECURSIVE FilterSeq(_, _)
FilterSeq(seq, keep) ==
    IF seq = <<>> THEN <<>>
    ELSE (IF Head(seq) \in keep THEN <<Head(seq)>> ELSE <<>>)
         \o FilterSeq(Tail(seq), keep)

\* s.pipe(lambda x : x[x>0])
DropEmpty(s) ==
    LET keep == {lab \in DOMAIN s.val : s.val[lab] > 0}
    IN  [index |-> FilterSeq(s.index, keep),
         val |-> [lab \in keep |-> s.val[lab]]]

\* l_sizes, r_sizes of a phase
l_sizes_of(d, phase) == DropEmpty(GroupSum(d, phase + 1))
r_sizes_of(d, phase) == DropEmpty(GroupSum(d, phase + 2))

\* sizes * factor
Shares(sizes, f) ==
    [index |-> sizes.index,
     val |-> [lab \in DOMAIN sizes.val |-> RMul(FromInt(sizes.val[lab]), f)]]

\* the gap space of the left side divided by the number of blocks
l_gaps_of_PerBlock(shares) ==
    RDiv(GAPS, FromInt(IF Len(shares.index) > 1 THEN Len(shares.index) ELSE 1))

\* GAPS / max((len(shares) - 1), 1)
l_gaps_of(shares) ==
    RDiv(GAPS, FromInt(IF Len(shares.index) - 1 > 1
                       THEN Len(shares.index) - 1 ELSE 1))
\* the gap space divided by the number of blocks, not of gaps
r_gaps_of_PerBlock(shares) ==
    RDiv(GAPS, FromInt(IF Len(shares.index) > 1 THEN Len(shares.index) ELSE 1))

r_gaps_of(shares) ==
    RDiv(GAPS, FromInt(IF Len(shares.index) - 1 > 1
                       THEN Len(shares.index) - 1 ELSE 1))

\* (shares + gaps).cumsum(), at position k of the index
RECURSIVE CumSum(_, _, _)
CumSum(shares, gap, k) ==
    IF k = 0 THEN Zero
    ELSE RAdd(CumSum(shares, gap, k - 1),
              RAdd(shares.val[shares.index[k]], gap))

\* the cumulative sums without the shift: every block starts where it ends
Starts_NoShift(shares, gap) ==
    LET pos(lab) == CHOOSE k \in 1..Len(shares.index) : shares.index[k] = lab
    IN  [index |-> shares.index,
         val |-> [lab \in DOMAIN shares.val |-> CumSum(shares, gap, pos(lab))]]

\* (shares + gaps).cumsum().shift().fillna(0)
Starts(shares, gap) ==
    LET pos(lab) == CHOOSE k \in 1..Len(shares.index) : shares.index[k] = lab
    IN  [index |-> shares.index,
         val |-> [lab \in DOMAIN shares.val |->
                    IF pos(lab) = 1 THEN Zero
                    ELSE CumSum(shares, gap, pos(lab) - 1)]]

EmptySeries == [index |-> <<>>, val |-> <<>>]

\* ---------------------------------------------------------------- state
VARIABLES
    data,                 \* the input table
    sort_flows_by_nodes,  \* option
    labels_on,            \* labels_color is not None
    titles_on,            \* titles_color is not None
    pc,                   \* position in sankey()
    phase,                \* loop variable of the phase loop
    factor,
    l_shares, r_shares,
    l_starts, r_starts,   \* block starts, then the running cursors
    flows_list,           \* rows of the phase in drawing order
    k,                    \* position of the flow loop in flows_list
    blocks, texts, ribbons,   \* what was added to the axes, in order
    xlim, axis_on         \* axes limits and visibility

vars == <<data, sort_flows_by_nodes, labels_on, titles_on, pc, phase, factor,
          l_shares, r_shares, l_starts, r_starts, flows_list, k,
          blocks, texts, ribbons, xlim, axis_on>>

inputs == <<data, sort_flows_by_nodes, labels_on, titles_on>>
layout == <<l_shares, r_shares, l_starts, r_starts>>
surface == <<blocks, texts, ribbons, xlim, axis_on>>

\* Every table is drawn in both flow orders with the default text colours;
\* the calls that hide labels or titles are those on the named tables and
\* on the tables of at most one row.
Init ==
    /\ sort_flows_by_nodes \in BOOLEAN
    /\ \/ /\ \E n \in ColumnCounts, len \in 0..MaxRows : data \in TablesOf(n, len)
          /\ labels_on = TRUE /\ titles_on = TRUE
       \/ /\ data \in {ExampleData, WideData}
          /\ labels_on \in BOOLEAN /\ titles_on \in BOOLEAN
       \/ /\ \E n \in ColumnCounts, len \in 0..1 : data \in TablesOf(n, len)
          /\ labels_on \in BOOLEAN /\ titles_on \in BOOLEAN
          /\ ~(labels_on /\ titles_on)
    /\ pc = "start"
    /\ phase = 0
    /\ factor = Zero
    /\ l_shares = EmptySeries /\ r_shares = EmptySeries
    /\ l_starts = EmptySeries /\ r_starts = EmptySeries
    /\ flows_list = <<>>
    /\ k = 1
    /\ blocks = <<>> /\ texts = <<>> /\ ribbons = <<>>
    /\ xlim = <<0, 1>>
    /\ axis_on = TRUE

\* ----------------------------------------------------- lines 112 to 127
\* data.iloc[:, 0] of a table without columns raises IndexError; the sum of
\* an empty object column is the int 0 and the division raises
\* ZeroDivisionError.
BeginRaise ==
    /\ pc = "start"
    /\ \/ data.ncols = 0
       \/ data.ncols >= 1 /\ Len(data.rows) = 0
    /\ pc' = "error"
    /\ UNCHANGED <<inputs, phase, factor, layout, flows_list, k, surface>>

\* A numeric weight column sums to a numpy scalar: dividing by a zero sum
\* gives inf and a warning, no exception.
Begin ==
    /\ pc = "start"
    /\ data.ncols >= 1
    /\ factor' = Factor(data)
    /\ phase' = 0
    /\ pc' = IF 0 < Phases(data) THEN "phase" ELSE "finish"
    /\ UNCHANGED <<inputs, layout, flows_list, k, surface>>

\* ----------------------------------------------------- lines 128 to 150
\* the shares and the starts of both sides of a phase
Layout(d, ph, fac) ==
    LET ls == Shares(l_sizes_of(d, ph), fac)
        rs == Shares(r_sizes_of(d, ph), fac)
    IN  [l_shares |-> ls, r_shares |-> rs,
         l_starts |-> Starts(ls, l_gaps_of(ls)),
         r_starts |-> Starts(rs, r_gaps_of(rs))]

PhaseSetup ==
    /\ pc = "phase"
    /\ LET lay == Layout(data, phase, factor)
       IN  /\ l_shares' = lay.l_shares
           /\ r_shares' = lay.r_shares
           /\ l_starts' = lay.l_starts
           /\ r_starts' = lay.r_starts
    /\ pc' = "sides"
    /\ UNCHANGED <<inputs, phase, factor, flows_list, k, surface>>

\* ----------------------------------------------------- lines 152 to 199
NoText == Rat(-1, 1)
Half == Rat(1, 2)

\* a left side that draws its texts in every phase
TextX_EverySide(pos, ph, phases, l, w) ==
    IF pos = "right" /\ ph < phases - 1 THEN RAdd(l, w)
    ELSE RAdd(l, RMul(Half, w))

\* the x where a side's texts are centred, or -1 for no text
TextX(pos, ph, phases, l, w) ==
    IF pos = "right" /\ ph < phases - 1 THEN RAdd(l, w)
    ELSE IF pos = "left" /\ ph # 0 THEN NoText
    ELSE RAdd(l, RMul(Half, w))

SideL(pos, ph) == IF pos = "right" THEN RAdd(FromInt(ph), RIGHT) ELSE FromInt(ph)
SideW(pos) == IF pos = "right" THEN RSub(One, RIGHT) ELSE LEFT

\* the Rectangle of each entry of starts.index
SideBlocks(pos, ph, starts, shares) ==
    [idx \in 1..Len(starts.index) |->
        LET start == starts.index[idx]
            bottom == starts.val[start]
        IN  [phase |-> ph, pos |-> pos, label |-> start, idx |-> idx - 1,
             bottom |-> bottom, size |-> shares.val[start],
             x |-> SideL(pos, ph), w |-> SideW(pos),
             y |-> RSub(RSub(One, bottom), shares.val[start])]]

\* the label text of each entry of starts.index
SideLabels(pos, ph, phases, starts, shares, on) ==
    LET tx == TextX(pos, ph, phases, SideL(pos, ph), SideW(pos))
    IN  IF tx # NoText /\ on
        THEN [idx \in 1..Len(starts.index) |->
                LET start == starts.index[idx]
                IN  [kind |-> "label", phase |-> ph, pos |-> pos,
                     col |-> IF pos = "left" THEN ph + 1 ELSE ph + 2,
                     text |-> start, x |-> tx,
                     y |-> RSub(RSub(One, starts.val[start]),
                                RMul(Half, shares.val[start]))]]
        ELSE <<>>

\* the title of a side: the name of its column
SideTitle(pos, ph, phases, on) ==
    LET tx == TextX(pos, ph, phases, SideL(pos, ph), SideW(pos))
    IN  IF tx # NoText /\ on
        THEN << [kind |-> "title", phase |-> ph, pos |-> pos,
                 col |-> IF pos = "left" THEN ph + 1 ELSE ph + 2,
                 text |-> IF pos = "left" THEN ph + 1 ELSE ph + 2,
                 x |-> tx, y |-> One] >>
        ELSE <<>>

DrawSides ==
    /\ pc = "sides"
    /\ blocks' = blocks \o SideBlocks("right", phase, r_starts, r_shares)
                        \o SideBlocks("left", phase, l_starts, l_shares)
    /\ texts' = texts
         \o SideLabels("right", phase, Phases(data), r_starts, r_shares, labels_on)
         \o SideTitle("right", phase, Phases(data), titles_on)
         \o SideLabels("left", phase, Phases(data), l_starts, l_shares, labels_on)
         \o SideTitle("left", phase, Phases(data), titles_on)
    /\ pc' = "sort"
    /\ UNCHANGED <<inputs, phase, factor, layout, flows_list, k, ribbons,
                   xlim, axis_on>>

\* ----------------------------------------------------- lines 201 to 213
\* data[[var_weight, var_left, var_right]]
FlowRows(d, ph) ==
    [i \in 1..Len(d.rows) |->
        [idx |-> i - 1, weight |-> Cell(d.rows[i], 0),
         start |-> Cell(d.rows[i], ph + 1), end |-> Cell(d.rows[i], ph + 2)]]

\* astype(CategoricalDtype(categories=starts.index, ordered=True))
AsCategory(lab, index) == IF lab \in Range(index) THEN lab ELSE NaN

\* the code of a categorical value; NaN sorts last
CatCode(lab, index) ==
    IF lab = NaN THEN Len(index) + 1
    ELSE CHOOSE i \in 1..Len(index) : index[i] = lab

\* the order of a sort on the left column alone
KeyLe_LeftOnly(f, g, lidx, ridx) ==
    CatCode(f.start, lidx) <= CatCode(g.start, lidx)

\* the order of sort_values([var_left, var_right])
KeyLe(f, g, lidx, ridx) ==
    \/ CatCode(f.start, lidx) < CatCode(g.start, lidx)
    \/ /\ CatCode(f.start, lidx) = CatCode(g.start, lidx)
       /\ CatCode(f.end, ridx) <= CatCode(g.end, ridx)

\* stable insertion of f after the entries whose key is not greater
RECURSIVE InsertFlow(_, _, _, _)
InsertFlow(sorted, f, lidx, ridx) ==
    IF sorted = <<>> THEN <<f>>
    ELSE IF KeyLe(Head(sorted), f, lidx, ridx)
         THEN <<Head(sorted)>> \o InsertFlow(Tail(sorted), f, lidx, ridx)
         ELSE <<f>> \o sorted

\* sort_values([var_left, var_right]) of the first n rows
RECURSIVE SortValues(_, _, _, _)
SortValues(fl, n, lidx, ridx) ==
    IF n = 0 THEN <<>>
    ELSE InsertFlow(SortValues(fl, n - 1, lidx, ridx), fl[n], lidx, ridx)

FlowsList(d, ph, sorted, lidx, ridx) ==
    IF sorted
    THEN LET cat == [i \in 1..Len(d.rows) |->
                       [FlowRows(d, ph)[i] EXCEPT
                          !.start = AsCategory(@, lidx),
                          !.end = AsCategory(@, ridx)]]
         IN  SortValues(cat, Len(cat), lidx, ridx)
    ELSE FlowRows(d, ph)

PrepareFlows ==
    /\ pc = "sort"
    /\ flows_list' = FlowsList(data, phase, sort_flows_by_nodes,
                               l_starts.index, r_starts.index)
    /\ k' = 1
    /\ pc' = "flows"
    /\ UNCHANGED <<inputs, phase, factor, layout, surface>>

\* ----------------------------------------------------- lines 215 to 224
\* a cursor that is read but not moved
Advance_Stuck(starts, lab, width) == starts

\* starts.loc[lab] += width
Advance(starts, lab, width) ==
    [starts EXCEPT !.val[lab] = RAdd(@, width)]

\* the ribbon _draw_flow adds for one row
Ribbon(ph, f, l, r, width) ==
    [phase |-> ph, row |-> f.idx, start |-> f.start, end |-> f.end,
     l |-> l, r |-> r, width |-> width,
     y0 |-> RSub(RSub(One, l), width), y1 |-> RSub(RSub(One, r), width),
     left |-> RAdd(FromInt(ph), LEFT), right |-> RAdd(FromInt(ph), RIGHT)]

\* one iteration of the flow loop on a row whose labels are in both indexes
FlowStep(ph, f, ls, rs, fac) ==
    LET width == RMul(FromInt(f.weight), fac)
    IN  [ribbon |-> Ribbon(ph, f, ls.val[f.start], rs.val[f.end], width),
         l_starts |-> Advance(ls, f.start, width),
         r_starts |-> Advance(rs, f.end, width)]

DrawFlow ==
    /\ pc = "flows"
    /\ k <= Len(flows_list)
    /\ flows_list[k].start \in DOMAIN l_starts.val
    /\ flows_list[k].end \in DOMAIN r_starts.val
    /\ LET step == FlowStep(phase, flows_list[k], l_starts, r_starts, factor)
       IN  /\ ribbons' = Append(ribbons, step.ribbon)
           /\ l_starts' = step.l_starts
           /\ r_starts' = step.r_starts
    /\ k' = k + 1
    /\ UNCHANGED <<inputs, pc, phase, factor, l_shares, r_shares, flows_list,
                   blocks, texts, xlim, axis_on>>

\* l_starts.loc[start] or r_starts.loc[end] of a label that is not in the
\* index raises KeyError
DrawFlowKeyError ==
    /\ pc = "flows"
    /\ k <= Len(flows_list)
    /\ \/ flows_list[k].start \notin DOMAIN l_starts.val
       \/ flows_list[k].end \notin DOMAIN r_starts.val
    /\ pc' = "error"
    /\ UNCHANGED <<inputs, phase, factor, layout, flows_list, k, surface>>

\* the flow loop is exhausted: next iteration of the phase loop, or leave it
EndPhase ==
    /\ pc = "flows"
    /\ k > Len(flows_list)
    /\ phase' = phase + 1
    /\ pc' = IF phase + 1 < Phases(data) THEN "phase" ELSE "finish"
    /\ UNCHANGED <<inputs, factor, layout, flows_list, k, surface>>

\* ----------------------------------------------------- lines 226 to 227
Finish ==
    /\ pc = "finish"
    /\ xlim' = <<0, Phases(data)>>
    /\ axis_on' = FALSE
    /\ pc' = "done"
    /\ UNCHANGED <<inputs, phase, factor, layout, flows_list, k, blocks,
                   texts, ribbons>>

Next ==
    \/ BeginRaise
    \/ Begin
    \/ PhaseSetup
    \/ DrawSides
    \/ PrepareFlows
    \/ DrawFlow
    \/ DrawFlowKeyError
    \/ EndPhase
    \/ Finish

Spec == Init /\ [][Next]_vars

\* ------------------------------------------------------------ vocabulary
\* every row has a positive weight
AllPositive ==
    /\ data.ncols >= 1
    /\ \A i \in 1..Len(data.rows) : Cell(data.rows[i], 0) > 0

\* the blocks drawn on one side of one phase, in drawing order
SideOf(ph, pos) == SelectSeq(blocks, LAMBDA b : b.phase = ph /\ b.pos = pos)

\* the sides on which a block was drawn
DrawnSides == {<<blocks[i].phase, blocks[i].pos>> : i \in DOMAIN blocks}

\* the ribbons drawn through a block, in drawing order
Through(b) ==
    SelectSeq(ribbons, LAMBDA r : /\ r.phase = b.phase
                                  /\ b.label = (IF b.pos = "left" THEN r.start
                                                ELSE r.end))

\* the offset at which a ribbon meets a side
OffsetAt(r, pos) == IF pos = "left" THEN r.l ELSE r.r

RECURSIVE WidthSum(_, _)
WidthSum(rs, n) == IF n = 0 THEN Zero ELSE RAdd(WidthSum(rs, n - 1), rs[n].width)

\* the running cursor of a block of the phase being drawn
CursorOf(b) == IF b.pos = "left" THEN l_starts.val[b.label] ELSE r_starts.val[b.label]

\* the flow loop of the phase has drawn its last row
FlowsDone == pc = "flows" /\ k > Len(flows_list)

\* ------------------------------------------------------------------- C1
\* C1: with positive weights and in either iteration order, the ribbons
\* drawn through a block tile it: the i-th one starts at the block's start
\* plus the widths of the earlier ones, the cursor is the start plus the
\* widths drawn so far, never beyond start + size, and equals start + size
\* once the last row of the phase is drawn.
C1_RibbonsTileBlock ==
    AllPositive =>
        \A i \in DOMAIN blocks :
            LET b == blocks[i]
                rs == Through(b)
                drawn == RAdd(b.bottom, WidthSum(rs, Len(rs)))
            IN  /\ \A j \in 1..Len(rs) :
                       /\ OffsetAt(rs[j], b.pos) = RAdd(b.bottom, WidthSum(rs, j - 1))
                       /\ RLt(Zero, rs[j].width)
                /\ RLe(drawn, RAdd(b.bottom, b.size))
                /\ (b.phase = phase /\ pc \in {"sort", "flows"})
                       => CursorOf(b) = drawn
                /\ (b.phase < phase \/ FlowsDone)
                       => drawn = RAdd(b.bottom, b.size)

\* a phase drawn to its end in sorted order, with a block that does not
\* start at 0 and carries two ribbons of different widths
C1_Witness ==
    /\ AllPositive /\ sort_flows_by_nodes /\ FlowsDone
    /\ \E i \in DOMAIN blocks :
           /\ blocks[i].phase = phase
           /\ blocks[i].bottom # Zero
           /\ Len(Through(blocks[i])) >= 2
           /\ Through(blocks[i])[1].width # Through(blocks[i])[2].width
           /\ CursorOf(blocks[i]) = RAdd(blocks[i].bottom, blocks[i].size)

\* ------------------------------------------------------------------- C2
\* C2: with positive weights, on every side adjacent blocks do not overlap
\* (start[k] + size[k] <= start[k+1]) and the last block ends at or
\* before 1.
C2_BlocksDoNotOverlap ==
    AllPositive =>
        \A side \in DrawnSides :
            LET bs == SideOf(side[1], side[2])
            IN  /\ \A j \in 1..(Len(bs) - 1) :
                       RLe(RAdd(bs[j].bottom, bs[j].size), bs[j + 1].bottom)
                /\ RLe(RAdd(bs[Len(bs)].bottom, bs[Len(bs)].size), One)

\* a side of three stacked blocks is drawn
C2_Witness ==
    /\ AllPositive
    /\ \E side \in DrawnSides : Len(SideOf(side[1], side[2])) = 3

\* ------------------------------------------------------------------- C3
RECURSIVE SizeSum(_, _)
SizeSum(bs, n) == IF n = 0 THEN Zero ELSE RAdd(SizeSum(bs, n - 1), bs[n].size)

\* the space left between the consecutive blocks of a side
RECURSIVE GapSpace(_, _)
GapSpace(bs, n) ==
    IF n <= 1 THEN Zero
    ELSE RAdd(GapSpace(bs, n - 1),
              RSub(bs[n].bottom, RAdd(bs[n - 1].bottom, bs[n - 1].size)))

\* C3 as stated: on every side, whatever its number of blocks, the sizes
\* plus the gap space between the blocks add up to 1 and the blocks span
\* [0, 1].
C3_Original ==
    \A side \in DrawnSides :
        LET bs == SideOf(side[1], side[2])
        IN  /\ RAdd(SizeSum(bs, Len(bs)), GapSpace(bs, Len(bs))) = One
            /\ bs[1].bottom = Zero
            /\ RAdd(bs[Len(bs)].bottom, bs[Len(bs)].size) = One

\* C3, amended: on a side of two or more blocks the sizes plus the gap
\* space between the blocks add up to 1 and the blocks span [0, 1]; a side
\* of a single block has no gap, and the block has size 1 - GAPS and spans
\* [0, 1 - GAPS].
C3_WidthConservation ==
    \A side \in DrawnSides :
        LET bs == SideOf(side[1], side[2])
            n == Len(bs)
        IN  /\ bs[1].bottom = Zero
            /\ SizeSum(bs, n) = RSub(One, GAPS)
            /\ n >= 2 => /\ GapSpace(bs, n) = GAPS
                         /\ RAdd(bs[n].bottom, bs[n].size) = One
            /\ n = 1 => /\ GapSpace(bs, n) = Zero
                        /\ RAdd(bs[n].bottom, bs[n].size) = RSub(One, GAPS)

\* a side of a single block and a side of three blocks are drawn
C3_Witness ==
    /\ \E side \in DrawnSides : Len(SideOf(side[1], side[2])) = 1
    /\ \E side \in DrawnSides : Len(SideOf(side[1], side[2])) = 3

\* ------------------------------------------------------------------- C7
\* the table with every weight multiplied by c
Scale(d, c) ==
    [ncols |-> d.ncols,
     rows |-> [i \in 1..Len(d.rows) |-> [d.rows[i] EXCEPT ![1] = c * @]]]

\* the flow loop run on the first n rows of fl
RECURSIVE RunFlows(_, _, _, _, _, _)
RunFlows(fl, n, ph, ls, rs, fac) ==
    IF n = 0 THEN [ribbons |-> <<>>, l_starts |-> ls, r_starts |-> rs]
    ELSE LET before == RunFlows(fl, n - 1, ph, ls, rs, fac)
             step == FlowStep(ph, fl[n], before.l_starts, before.r_starts, fac)
         IN  [ribbons |-> Append(before.ribbons, step.ribbon),
              l_starts |-> step.l_starts, r_starts |-> step.r_starts]

BlocksOfPhase(ph) == SelectSeq(blocks, LAMBDA b : b.phase = ph)
RibbonsOfPhase(ph) == SelectSeq(ribbons, LAMBDA r : r.phase = ph)

\* C7: with positive weights, the table with every weight multiplied by a
\* constant c > 1 has the layout that is being drawn: in the phase at hand
\* the same blocks (labels, order, sizes, starts) on both sides, the same
\* ribbons (widths and offsets) in the same order and the same cursors.
C7_ScaleInvariance ==
    (AllPositive /\ pc \in {"sort", "flows"}) =>
        \A c \in 2..MaxScale :
            LET d2 == Scale(data, c)
                lay == Layout(d2, phase, Factor(d2))
                fl == FlowsList(d2, phase, sort_flows_by_nodes,
                                lay.l_starts.index, lay.r_starts.index)
                run == RunFlows(fl, k - 1, phase, lay.l_starts, lay.r_starts,
                                Factor(d2))
            IN  /\ BlocksOfPhase(phase) =
                      SideBlocks("right", phase, lay.r_starts, lay.r_shares)
                      \o SideBlocks("left", phase, lay.l_starts, lay.l_shares)
                /\ pc = "flows" => /\ Len(fl) = Len(flows_list)
                                   /\ RibbonsOfPhase(phase) = run.ribbons
                                   /\ l_starts = run.l_starts
                                   /\ r_starts = run.r_starts

\* the second phase of a table of unequal weights is drawn to its end
C7_Witness ==
    /\ AllPositive /\ FlowsDone /\ phase = 1
    /\ Len(RibbonsOfPhase(1)) >= 2
    /\ \E i, j \in 1..Len(data.rows) : Cell(data.rows[i], 0) # Cell(data.rows[j], 0)

\* ------------------------------------------------------------------- C8
\* the category column a side shows
ColumnOf(ph, pos) == IF pos = "left" THEN ph + 1 ELSE ph + 2

Labels_(bs) == [j \in 1..Len(bs) |-> bs[j].label]

\* the labels of column c whose rows have a positive total weight
PositiveLabels(c) ==
    {lab \in {Cell(data.rows[i], c) : i \in 1..Len(data.rows)} :
        GroupWeight(data.rows, Len(data.rows), c, lab) > 0}

\* start[0] = 0, start[k] = start[k-1] + size[k-1] + gap, size = total * factor
StackedAsSpecified(bs, c) ==
    LET gap == RDiv(GAPS, FromInt(IF Len(bs) - 1 > 1 THEN Len(bs) - 1 ELSE 1))
        fac == RDiv(Rat(9, 10), FromInt(SumWeights(data.rows, Len(data.rows))))
    IN  /\ bs[1].bottom = Zero
        /\ \A j \in 2..Len(bs) :
               bs[j].bottom = RAdd(RAdd(bs[j - 1].bottom, bs[j - 1].size), gap)
        /\ \A j \in 1..Len(bs) :
               bs[j].size =
                   RMul(FromInt(GroupWeight(data.rows, Len(data.rows), c, bs[j].label)),
                        fac)

Block_(bs, j, lab, size, start) ==
    bs[j].label = lab /\ bs[j].size = size /\ bs[j].bottom = start

\* rows [(10, A, X), (5, B, X), (5, B, Y)]: the four blocks, B of size sizeB
ExampleBlocks(sizeB) ==
    (data = ExampleData /\ blocks # <<>>) =>
        /\ Len(SideOf(0, "left")) = 2 /\ Len(SideOf(0, "right")) = 2
        /\ Block_(SideOf(0, "left"), 1, 1, Rat(45, 100), Zero)
        /\ Block_(SideOf(0, "left"), 2, 2, sizeB, Rat(55, 100))
        /\ Block_(SideOf(0, "right"), 1, 3, Rat(675, 1000), Zero)
        /\ Block_(SideOf(0, "right"), 2, 4, Rat(225, 1000), Rat(775, 1000))

\* C8 as stated: the blocks of a side are the categories of positive total
\* in the order of their first row in the input, stacked by
\* start[k] = start[k-1] + size[k-1] + gap; in the example A is (0.45, 0),
\* B (0.225, 0.55), X (0.675, 0) and Y (0.225, 0.775).
C8_Original ==
    /\ \A side \in DrawnSides :
           LET bs == SideOf(side[1], side[2])
               c == ColumnOf(side[1], side[2])
           IN  /\ Labels_(bs) = FilterSeq(FirstSeen(data.rows, Len(data.rows), c),
                                          PositiveLabels(c))
               /\ StackedAsSpecified(bs, c)
    /\ ExampleBlocks(Rat(225, 1000))

\* C8, amended: the blocks of a side are the categories of positive total
\* in ascending order of their labels (the sorted keys of the group-by),
\* stacked by start[k] = start[k-1] + size[k-1] + gap; in the example A is
\* (0.45, 0), B (0.45, 0.55), X (0.675, 0) and Y (0.225, 0.775).
C8_BlockStacking ==
    /\ \A side \in DrawnSides :
           LET bs == SideOf(side[1], side[2])
               c == ColumnOf(side[1], side[2])
           IN  /\ Range(Labels_(bs)) = PositiveLabels(c)
               /\ \A j \in 1..(Len(bs) - 1) : bs[j].label < bs[j + 1].label
               /\ \A j \in 1..Len(bs) : bs[j].idx = j - 1
               /\ StackedAsSpecified(bs, c)
    /\ ExampleBlocks(Rat(45, 100))

\* a side of three blocks whose labels first occur in another order than
\* the sorted one
C8_Witness ==
    \E side \in DrawnSides :
        /\ Len(SideOf(side[1], side[2])) = 3
        /\ Labels_(SideOf(side[1], side[2])) #
               FirstSeen(data.rows, Len(data.rows), ColumnOf(side[1], side[2]))

\* ------------------------------------------------------------------- C9
\* the stacking position of the block of a label
BlockIdx(ph, pos, lab) ==
    LET bs == SideOf(ph, pos)
    IN  bs[CHOOSE j \in 1..Len(bs) : bs[j].label = lab].idx

RibbonKeyLe(ph, r1, r2) ==
    \/ BlockIdx(ph, "left", r1.start) < BlockIdx(ph, "left", r2.start)
    \/ /\ r1.start = r2.start
       /\ BlockIdx(ph, "right", r1.end) <= BlockIdx(ph, "right", r2.end)

\* C9: the ribbons of a phase are the rows of the table; without
\* sort_flows_by_nodes they are drawn in row order; with it, in ascending
\* order of (stacking position of the left block, stacking position of the
\* right block), so the rows between the same pair of blocks are contiguous.
\* With positive weights every row is drawn once.
C9_FlowOrder ==
    \A ph \in 0..(Phases(data) - 1) :
        LET rs == RibbonsOfPhase(ph)
        IN  /\ \A j \in 1..Len(rs) :
                   /\ rs[j].row \in 0..(Len(data.rows) - 1)
                   /\ rs[j].start = Cell(data.rows[rs[j].row + 1], ph + 1)
                   /\ rs[j].end = Cell(data.rows[rs[j].row + 1], ph + 2)
            /\ \A i, j \in 1..Len(rs) : i # j => rs[i].row # rs[j].row
            /\ ~sort_flows_by_nodes => \A j \in 1..Len(rs) : rs[j].row = j - 1
            /\ sort_flows_by_nodes =>
                   /\ \A j \in 1..(Len(rs) - 1) : RibbonKeyLe(ph, rs[j], rs[j + 1])
                   /\ \A i, j, m \in 1..Len(rs) :
                          (/\ i < j /\ j < m
                           /\ rs[i].start = rs[m].start /\ rs[i].end = rs[m].end)
                          => (rs[j].start = rs[i].start /\ rs[j].end = rs[i].end)
            /\ (AllPositive /\ (ph < phase \/ (ph = phase /\ FlowsDone)))
                   => Len(rs) = Len(data.rows)

\* a sorted phase drawn to its end in another order than the rows', with a
\* ribbon drawn before one of an earlier row and of the same left block
C9_Witness ==
    /\ sort_flows_by_nodes /\ FlowsDone
    /\ \E j \in 1..(Len(RibbonsOfPhase(phase)) - 1) :
           /\ RibbonsOfPhase(phase)[j].row > RibbonsOfPhase(phase)[j + 1].row
           /\ RibbonsOfPhase(phase)[j].start = RibbonsOfPhase(phase)[j + 1].start

\* ------------------------------------------------------------------ C10
\* what a block shows of its category: label, position, size and start
Placed(bs) ==
    [j \in 1..Len(bs) |-> [label |-> bs[j].label, idx |-> bs[j].idx,
                           size |-> bs[j].size, bottom |-> bs[j].bottom]]

\* C10: the blocks on the right of phase p and the blocks on the left of
\* phase p+1 are the same categories in the same order with the same sizes
\* and starts, and the cursors phase p+1 starts from are those starts,
\* whatever ribbons phase p drew.
C10_InteriorBoundary ==
    /\ \A p \in 0..(Phases(data) - 2) :
           (p + 1 < phase \/ (p + 1 = phase /\ pc \in {"sort", "flows"}))
               => Placed(SideOf(p, "right")) = Placed(SideOf(p + 1, "left"))
    /\ (phase >= 1 /\ pc \in {"sides", "sort"}) =>
           LET bs == SideOf(phase - 1, "right")
           IN  /\ l_starts.index = Labels_(bs)
               /\ \A j \in 1..Len(bs) :
                      /\ l_starts.val[bs[j].label] = bs[j].bottom
                      /\ l_shares.val[bs[j].label] = bs[j].size

\* the second phase has drawn its blocks after the first phase moved the
\* cursors of at least two right blocks
C10_Witness ==
    /\ phase = 1 /\ pc = "sort"
    /\ Len(SideOf(0, "right")) >= 2
    /\ Len(SideOf(1, "left")) >= 2
    /\ \E i, j \in DOMAIN ribbons :
           /\ ribbons[i].end # ribbons[j].end
           /\ RLt(Zero, ribbons[i].width) /\ RLt(Zero, ribbons[j].width)

\* ------------------------------------------------------------------- C5
Count(seq, P(_)) == Len(SelectSeq(seq, P))

\* the labels of category column c
LabelsIn(c) == {Cell(data.rows[i], c) : i \in 1..Len(data.rows)}

CategoryColumns == 1..(data.ncols - 1)

\* a full render with labels and titles shown
FullRender == pc = "done" /\ labels_on /\ titles_on /\ Phases(data) >= 1

\* every column title is drawn once, the texts of the first column by the
\* left side of phase 0 and those of any other column c by the right side
\* of phase c - 2
TitlesAndSides ==
    /\ \A c \in CategoryColumns :
           Count(texts, LAMBDA t : t.kind = "title" /\ t.text = c) = 1
    /\ \A i \in DOMAIN texts :
           /\ texts[i].col \in CategoryColumns
           /\ texts[i].kind = "title" => texts[i].text = texts[i].col
           /\ IF texts[i].col = 1
              THEN texts[i].pos = "left" /\ texts[i].phase = 0
              ELSE texts[i].pos = "right" /\ texts[i].phase = texts[i].col - 2

\* C5 as stated: in a full render every column title and every distinct
\* category label is drawn exactly once, a label of several columns
\* included; interior boundaries are drawn by the right side of the
\* preceding phase.
C5_Original ==
    FullRender =>
        /\ TitlesAndSides
        /\ \A lab \in UNION {LabelsIn(c) : c \in CategoryColumns} :
               Count(texts, LAMBDA t : t.kind = "label" /\ t.text = lab) = 1

\* C5, amended: in a full render every column title is drawn exactly once
\* and every category label is drawn exactly once for each category column
\* it occurs in (a label of m columns is drawn m times, once per column);
\* interior boundaries are drawn by the right side of the preceding phase.
C5_LabelSinglePlacement ==
    FullRender =>
        /\ TitlesAndSides
        /\ \A c \in CategoryColumns :
               \A lab \in LabelsIn(c) :
                   Count(texts, LAMBDA t : /\ t.kind = "label"
                                           /\ t.col = c /\ t.text = lab) = 1
        /\ \A i \in DOMAIN texts :
               texts[i].kind = "label" => texts[i].text \in LabelsIn(texts[i].col)

\* a full render of two phases with a label that occurs in the interior
\* column and in another one
C5_Witness ==
    /\ FullRender /\ Phases(data) = 2
    /\ LabelsIn(2) \cap (LabelsIn(1) \cup LabelsIn(3)) # {}
    /\ Cardinality(LabelsIn(2)) >= 2

\* ------------------------------------------------------------------- C4
\* a category of some side has a total weight <= 0
HasDroppedCategory ==
    /\ data.ncols >= 3
    /\ \E c \in CategoryColumns : \E lab \in LabelsIn(c) :
           GroupWeight(data.rows, Len(data.rows), c, lab) <= 0

\* C4: a render of a table with a category of total weight <= 0 does not
\* raise, and the category gets no block.
C4_DroppedCategoryTolerated ==
    HasDroppedCategory =>
        /\ pc # "error"
        /\ \A i \in DOMAIN blocks :
               GroupWeight(data.rows, Len(data.rows),
                           ColumnOf(blocks[i].phase, blocks[i].pos),
                           blocks[i].label) > 0

\* ------------------------------------------------------------------- C6
\* fewer than three columns, or no row
Malformed == data.ncols < 3 \/ Len(data.rows) = 0

SurfaceUntouched ==
    /\ blocks = <<>> /\ texts = <<>> /\ ribbons = <<>>
    /\ xlim = <<0, 1>> /\ axis_on

\* C6: a render of a malformed table raises before anything is drawn: it
\* never completes and never touches the surface.
C6_MalformedFailsFast ==
    Malformed => (pc # "done" /\ SurfaceUntouched)

====
